---- MODULE Spec2Model ----
(***************************************************************************)
(* Model of the data-summarization agent: DataAnalyzer.load_data and       *)
(* download_data_from_url (src/data_analyzer.py), run_data_analysis_sandbox *)
(* (src/data_analyzer.py) and the chat handler (src/agent.py).              *)
(***************************************************************************)
EXTENDS Integers, Sequences, FiniteSets, TLC

VARIABLES data_input, csv_fact, json_fact, loaded

\* one load_data call: its argument, what the parsers make of it, its result
lvars == <<data_input, csv_fact, json_fact, loaded>>

VARIABLES apc, reply, outbox, query, pc, df, nnum, chart_paths, charts_base64, files,
          sandbox, deletes, attempts, ready, result, ops

\* the chat handler of each message: its position, the reply it sent, every
\* message it has sent to the sender, in order, and len(query)
avars == <<apc, reply, outbox, query>>

\* run_data_analysis_sandbox of each message: its position, its locals, the
\* sandbox it created, its return, the calls it made; files is /tmp/charts
rvars == <<pc, df, nnum, chart_paths, charts_base64, files,
           sandbox, deletes, attempts, ready, result, ops>>

VARIABLES table, broken, analysis, charts, url_in, url_out

\* one application of analyze_data and generate_charts to a table (broken:
\* the charts whose rendering raises), and one sheet-link rewrite of a URL
pvars == <<table, broken, analysis, charts, url_in, url_out>>

vars == <<lvars, avars, rvars, pvars>>

(***************************************************************************)
(* Input text.  A text is a sequence of tokens; each token stands for the  *)
(* substring the loader tests for:                                          *)
(*   "http"  the prefix 'http' ('http://', 'https://')                      *)
(*   ","     a comma            "\n"  a newline (the only whitespace)       *)
(*   "{"     an opening '{' or '['                                          *)
(*   ".csv" ".json"  the suffixes tested by endswith                        *)
(*   "format=csv"    the query hint tested by 'format=csv' in url           *)
(*   "/export?"      the export path; followed by "format=csv" it is the    *)
(*                   substring '/export?format=csv'                         *)
(*   "gsheet"        'docs.google.com/spreadsheets/d/<id>', a sheet link    *)
(*   "x"     any other run of characters                                    *)
(***************************************************************************)
Tokens == {"http", ",", "\n", "{", "x", ".csv", ".json", "format=csv", "/export?", "gsheet"}

MaxLen == 3

RECURSIVE SeqsUpTo(_, _)
SeqsUpTo(S, n) ==
    IF n = 0 THEN {<<>>}
    ELSE LET shorter == SeqsUpTo(S, n - 1)
         IN  shorter \cup {Append(s, t) : s \in {u \in shorter : Len(u) = n - 1}, t \in S}

Texts == SeqsUpTo(Tokens, MaxLen) \ {<<>>}

Has(s, tok) == \E i \in 1..Len(s) : s[i] = tok

StartsWith(s, tok) == Len(s) > 0 /\ s[1] = tok

EndsWith(s, tok) == Len(s) > 0 /\ s[Len(s)] = tok

IsSpace(tok) == tok = "\n"

RECURSIVE LStrip(_)
LStrip(s) == IF Len(s) > 0 /\ IsSpace(s[1]) THEN LStrip(Tail(s)) ELSE s

RECURSIVE RStrip(_)
RStrip(s) ==
    IF Len(s) > 0 /\ IsSpace(s[Len(s)]) THEN RStrip(SubSeq(s, 1, Len(s) - 1)) ELSE s

\* str.strip()
Strip(s) == RStrip(LStrip(s))

(***************************************************************************)
(* Tables.  A DataFrame is kept by its shape and by where its rows came    *)
(* from: "csv" (delimited text), "records" (the items of a JSON array),    *)
(* "value" (the items of the idx-th value of a JSON object), "wrap" (a     *)
(* JSON object as one row), "columns" (a JSON object handed to the         *)
(* DataFrame constructor as column -> values).  NoneDf is Python's None.   *)
(***************************************************************************)
Df(r, c, src, i) == [rows |-> r, cols |-> c, src |-> src, idx |-> i]

NoneDf == Df(0, 0, "none", 0)

\* the outcome of a constructor or parser call: a table, or an exception
Built(d) == [raised |-> FALSE, df |-> d]

Raised == [raised |-> TRUE, df |-> NoneDf]

\* the widest table modelled
MaxCols == 2

\* outcomes of pd.read_csv: an exception, or a table of rows x cols
CsvOutcomes ==
    {Raised} \cup {Built(Df(r, c, "csv", 0)) : r \in 0..1, c \in 1..MaxCols}

\* what pd.read_csv can make of the text s: two columns need a comma, a data
\* row needs a second line, and only an empty or a multi-line text fails
CsvFacts(s) ==
    {o \in CsvOutcomes :
        /\ (s = <<>>) => o.raised
        /\ o.raised => (s = <<>> \/ Has(s, "\n"))
        /\ o.df.cols >= 2 => Has(s, ",")
        /\ o.df.rows >= 1 => Has(s, "\n")}

\* JSON values of an object: a scalar, or an array of records (items holds
\* the number of keys of each record, 0 for an item that is no record but a
\* scalar)
Scalar == [islist |-> FALSE, items |-> <<>>]

ListA == [islist |-> TRUE, items |-> <<1>>]

ListB == [islist |-> TRUE, items |-> <<2, 2>>]

\* JSON documents as json.loads returns them
Doc(k, items, vals) == [kind |-> k, items |-> items, vals |-> vals]

NoDoc == Doc("nodoc", <<>>, <<>>)

InvalidDoc == Doc("invalid", <<>>, <<>>)

ScalarDoc == Doc("scalar", <<>>, <<>>)

ArrayDocs == {Doc("list", it, <<>>) : it \in {<<>>, <<0>>, <<1>>, <<2, 2>>}}

ObjectDocs ==
    {Doc("dict", <<>>, v) :
        v \in {<<>>, <<Scalar>>, <<Scalar, Scalar>>, <<ListA>>, <<Scalar, ListB>>,
               <<ListA, ListB>>, <<ListB, ListA>>}}

\* a text that starts with '{' or '[' parses to an object or an array, or not at all
InlineDocs == {InvalidDoc} \cup ArrayDocs \cup ObjectDocs

JsonDocs == InlineDocs \cup {ScalarDoc}

RECURSIVE MaxOf(_)
MaxOf(items) ==
    IF items = <<>> THEN 0
    ELSE LET m == MaxOf(Tail(items)) IN IF Head(items) > m THEN Head(items) ELSE m

\* the items of an array are scalars, not records
ScalarItems(items) == items # <<>> /\ \A k \in 1..Len(items) : items[k] = 0

\* pd.DataFrame(list of records): a row per record, a column per key; a list
\* of scalars gives one column, labelled with the integer 0
FromRecords(items, src, i) ==
    Df(Len(items), IF ScalarItems(items) THEN 1 ELSE MaxOf(items), src, i)

\* for key, value in data.items(): if isinstance(value, list): ... (index of
\* the first array value at or after i, 0 when there is none)
RECURSIVE FirstList(_, _)
FirstList(vals, i) ==
    IF i > Len(vals) THEN 0
    ELSE IF vals[i].islist THEN i
    ELSE FirstList(vals, i + 1)

\* pd.DataFrame(data) on a parsed document: an array gives a row per record;
\* an object is read as column -> values and needs an array value, all arrays
\* of one length (scalars are broadcast); a scalar is refused
DataFrameOf(doc) ==
    IF doc.kind = "list" THEN Built(FromRecords(doc.items, "records", 0))
    ELSE IF doc.kind = "dict" THEN
        IF doc.vals = <<>> THEN Built(Df(0, 0, "columns", 0))
        ELSE IF FirstList(doc.vals, 1) = 0 THEN Raised
        ELSE IF \E i, j \in 1..Len(doc.vals) :
                    /\ doc.vals[i].islist /\ doc.vals[j].islist
                    /\ Len(doc.vals[i].items) # Len(doc.vals[j].items) THEN Raised
        ELSE Built(Df(Len(doc.vals[FirstList(doc.vals, 1)].items), Len(doc.vals), "columns", 0))
    ELSE Raised

\* the record discovery of lines 55-62, 74-82 and 134-146: an array is the
\* rows; an object gives its first array value, else is wrapped as one row;
\* anything else goes to the DataFrame constructor
DiscoverRecords(doc) ==
    IF doc.kind = "list" THEN Built(FromRecords(doc.items, "records", 0))
    ELSE IF doc.kind = "dict" THEN
        LET i == FirstList(doc.vals, 1)
        IN  IF i > 0 THEN Built(FromRecords(doc.vals[i].items, "value", i))
            ELSE Built(Df(1, Len(doc.vals), "wrap", 0))
    ELSE DataFrameOf(doc)

(***************************************************************************)
(* The loader.  A load result holds the table (isNone: load_data returned  *)
(* None), the steps entered in order ("inline_csv", "inline_json", "file", *)
(* "url"), the parsing path that ended the load, the JSON document that    *)
(* path parsed, and for a fetch the locator fetched, the content-type      *)
(* class of the response and the format branch taken.                      *)
(***************************************************************************)
Res(b, steps, path, doc) ==
    [isNone |-> b.raised, df |-> b.df, steps |-> steps, path |-> path, doc |-> doc,
     url |-> <<>>, ctype |-> "n/a", fmt |-> "n/a"]

Fetched(r, url, ctype, fmt) == [r EXCEPT !.url = url, !.ctype = ctype, !.fmt = fmt]

\* line 42 without its 'not startswith("http")'
LooksLikeCsvAnyPrefix(s) == Has(s, ",") /\ Has(s, "\n")

\* line 42
LooksLikeCsv(s) == Has(s, ",") /\ Has(s, "\n") /\ ~StartsWith(s, "http")

\* line 46 with the column test off by one
CsvAcceptedWide(o) == ~o.raised /\ o.df.rows > 0 /\ o.df.cols > 2

\* line 46
CsvAccepted(o) == ~o.raised /\ o.df.rows > 0 /\ o.df.cols > 1

\* line 52
LooksLikeJson(s) == StartsWith(s, "{") /\ ~StartsWith(s, "http")

\* '/export?format=csv' in url
HasExport(url) ==
    \E i \in 1..(Len(url) - 1) : url[i] = "/export?" /\ url[i + 1] = "format=csv"

\* lines 103-120: a sheet link that is not an export link is rewritten to the
\* export link of its document ("x" is the '&gid=...' that ends it)
SheetExportUrl(url) ==
    IF Has(url, "gsheet") /\ ~HasExport(url)
    THEN <<"http", "gsheet", "/export?", "format=csv", "x">>
    ELSE url

\* line 128
IsCsvResponse(ctype, url) == ctype = "csv" \/ EndsWith(url, ".csv") \/ Has(url, "format=csv")

\* line 131
IsJsonResponse(ctype, url) == ctype = "json" \/ EndsWith(url, ".json")

CTypes == {"csv", "json", "other"}

\* line 122: requests.get answers only for a locator with an http(s) scheme
\* (leading whitespace is dropped); for any other text it raises
Fetchable(url) == StartsWith(LStrip(url), "http")

\* download_data_from_url: the results the fetch of `given` can have, st being
\* the steps entered before it
DownloadDataFromUrl(given, st) ==
    LET url == SheetExportUrl(given)
        steps == Append(st, "url")
        failed == Fetched(Res(Raised, steps, "fetch_failed", NoDoc), url, "n/a", "n/a")
    IN  {failed} \cup UNION {
            IF ~Fetchable(url) THEN {} ELSE
            IF IsCsvResponse(ct, url) THEN
                {Fetched(Res(o, steps, "remote_csv", NoDoc), url, ct, "csv") : o \in CsvOutcomes}
            ELSE IF IsJsonResponse(ct, url) THEN
                {Fetched(Res(IF d = InvalidDoc THEN Raised ELSE DiscoverRecords(d),
                             steps, "remote_json", d), url, ct, "json") : d \in JsonDocs}
            ELSE
                {Fetched(Res(o, steps, "remote_trial_csv", NoDoc), url, ct, "trial") :
                    o \in CsvOutcomes \ {Raised}}
                \cup
                {Fetched(Res(IF d = InvalidDoc THEN Raised ELSE DataFrameOf(d),
                             steps, "remote_trial_json", d), url, ct, "trial") : d \in JsonDocs}
            : ct \in CTypes}

\* lines 67-90: the input names an existing file
LoadFile(input, st) ==
    LET steps == Append(st, "file")
    IN  IF EndsWith(input, ".csv") THEN
            {Res(o, steps, "file_csv", NoDoc) : o \in CsvOutcomes}
        ELSE IF EndsWith(input, ".json") THEN
            {Res(IF d = InvalidDoc THEN Raised ELSE DiscoverRecords(d), steps, "file_json", d) :
                d \in JsonDocs}
        ELSE
            {Res(o, steps, "file_trial_csv", NoDoc) : o \in CsvOutcomes \ {Raised}}
            \cup
            {Res(IF d = InvalidDoc THEN Raised ELSE DataFrameOf(d), steps, "file_trial_json", d) :
                d \in JsonDocs}

\* lines 66-93: os.path.exists decides between the file and the fetch
FileOrUrl(input, st) == LoadFile(input, st) \cup DownloadDataFromUrl(input, st)

\* what json.loads can make of the text s; a text that does not start with
\* '{' or '[' is never parsed inline, and its fact is kept as InvalidDoc
JsonFacts(s) == IF StartsWith(s, "{") THEN InlineDocs ELSE {InvalidDoc}

\* lines 52-64: inline JSON; a text that does not parse (the bare except of
\* line 63) falls through to the file test
InlineJson(input, st, json) ==
    LET steps == Append(st, "inline_json")
    IN  IF json.kind \in {"list", "dict"}
        THEN {Res(DiscoverRecords(json), steps, "inline_json", json)}
        ELSE FileOrUrl(input, steps)

\* load_data with the JSON test ahead of the CSV test
LoadDataJsonFirst(input, csv, json) ==
    LET s == Strip(input)
    IN  IF LooksLikeJson(s) THEN InlineJson(input, <<>>, json)
        ELSE IF LooksLikeCsv(s) /\ CsvAccepted(csv) THEN {Res(csv, <<"inline_csv">>, "inline_csv", NoDoc)}
        ELSE FileOrUrl(input, IF LooksLikeCsv(s) THEN <<"inline_csv">> ELSE <<>>)

\* load_data: the results loading `input` can have when pd.read_csv makes
\* `csv` and json.loads makes `json` of its stripped text
LoadData(input, csv, json) ==
    LET s == Strip(input)
        st == IF LooksLikeCsv(s) THEN <<"inline_csv">> ELSE <<>>
    IN  IF LooksLikeCsv(s) /\ CsvAccepted(csv) THEN {Res(csv, st, "inline_csv", NoDoc)}
        ELSE IF LooksLikeJson(s) THEN InlineJson(input, st, json)
        ELSE FileOrUrl(input, st)

NotLoaded == Res(Raised, <<>>, "pending", NoDoc)

(***************************************************************************)
(* The pipeline.  Procs are the chat messages; each is handled by          *)
(* handle_message, which runs run_data_analysis_sandbox in an executor.    *)
(***************************************************************************)
Procs == {1, 2}

\* line 806
PollMax == 45

\* lines 259 and 275
HistLimit == 5

BarLimit == 3

Min(a, b) == IF a < b THEN a ELSE b

\* df.columns holds integers, not strings: the table was built from an array
\* of scalars (delimited text and records always give string labels)
IntLabels(r) ==
    /\ ~r.isNone
    /\ \/ r.df.src = "records" /\ ScalarItems(r.doc.items)
       \/ r.df.src = "value" /\ ScalarItems(r.doc.vals[r.df.idx].items)

\* the tables load_data can return: None, or a table of rows x cols
Shape(r) ==
    [isNone |-> r.isNone, rows |-> r.df.rows, cols |-> r.df.cols, intLabels |-> IntLabels(r)]

LoadShapes ==
    UNION {UNION {UNION {{Shape(r) : r \in LoadData(t, c, j)} :
                            j \in JsonFacts(Strip(t))} :
                     c \in CsvFacts(Strip(t))} :
              t \in Texts}

NoShape == [isNone |-> TRUE, rows |-> 0, cols |-> 0, intLabels |-> FALSE]

\* line 723 with its df.empty test left out
DfMissing(d) == d.isNone

\* line 723: df is None or df.empty
DfEmpty(d) == d.isNone \/ d.rows = 0 \/ d.cols = 0

\* chart files are named by kind and position: hist_{i}.png, bar_{i}.png,
\* correlation.png
Chart(kind, i) == [kind |-> kind, i |-> i]

RECURSIVE Numbered(_, _, _)
Numbered(kind, i, n) ==
    IF i >= n THEN <<>> ELSE <<Chart(kind, i)>> \o Numbered(kind, i + 1, n)

\* lines 255-324: the charts generate_charts attempts, in order, for a table
\* of `cols` columns of which `nn` are numeric and the others of object dtype
Candidates(cols, nn) ==
    Numbered("hist", 0, Min(nn, HistLimit))
    \o Numbered("bar", 0, Min(cols - nn, BarLimit))
    \o (IF nn >= 2 THEN <<Chart("correlation", 0)>> ELSE <<>>)

InSeq(q) == {q[i] : i \in 1..Len(q)}

\* generate_charts: the paths returned when the charts in `skipped` failed to
\* render or were skipped
GenerateCharts(cols, nn, skipped) ==
    LET keep(c) == c \notin skipped IN SelectSeq(Candidates(cols, nn), keep)

ChartNames == UNION {InSeq(Candidates(c, n)) : c \in 0..MaxCols, n \in 0..MaxCols}

\* charts_to_base64: each path is read back from the directory; `from` is
\* the invocation whose table the bytes read were rendered from
ChartsToBase64(paths, dir) ==
    [i \in 1..Len(paths) |-> [name |-> paths[i], from |-> dir[paths[i]]]]

Log(p, op) == ops' = [ops EXCEPT ![p] = Append(@, op)]

Goto(p, l) == pc' = [pc EXCEPT ![p] = l]

\* an exception inside the try block of lines 716-824
Throw(p) == Goto(p, "except")

Returns(p, r) == pc' = [pc EXCEPT ![p] = "done"] /\ result' = [result EXCEPT ![p] = r]

RunIdle ==
    /\ pc = [p \in Procs |-> "idle"]
    /\ df = [p \in Procs |-> NoShape]
    /\ nnum = [p \in Procs |-> 0]
    /\ chart_paths = [p \in Procs |-> <<>>]
    /\ charts_base64 = [p \in Procs |-> <<>>]
    /\ files = [c \in ChartNames |-> 0]
    /\ sandbox = [p \in Procs |-> "absent"]
    /\ deletes = [p \in Procs |-> 0]
    /\ attempts = [p \in Procs |-> 0]
    /\ ready = [p \in Procs |-> FALSE]
    /\ result = [p \in Procs |-> "pending"]
    /\ ops = [p \in Procs |-> <<>>]

LoadIdle ==
    /\ data_input = <<>>
    /\ csv_fact = Raised
    /\ json_fact = InvalidDoc
    /\ loaded = NotLoaded

\* lines 705-708: without DAYTONA_API_KEY nothing is created
GetKey(p) ==
    /\ pc[p] = "start"
    /\ \/ Returns(p, "none") /\ Log(p, "no_key")
       \/ Goto(p, "create") /\ UNCHANGED <<result, ops>>
    /\ UNCHANGED <<pvars, lvars, avars, df, nnum, chart_paths, charts_base64, files,
                   sandbox, deletes, attempts, ready>>

\* lines 710-714: daytona.create() is outside the try block
Create(p) ==
    /\ pc[p] = "create"
    /\ \/ /\ sandbox' = [sandbox EXCEPT ![p] = "live"]
          /\ Goto(p, "load") /\ Log(p, "create") /\ UNCHANGED result
       \/ /\ Returns(p, "raised") /\ Log(p, "create_failed") /\ UNCHANGED sandbox
    /\ UNCHANGED <<pvars, lvars, avars, df, nnum, chart_paths, charts_base64, files,
                   deletes, attempts, ready>>

\* lines 720-723: load_data never raises; nnum is the number of columns of
\* the table that pandas gave a numeric dtype
Load(p) ==
    /\ pc[p] = "load"
    /\ \E d \in LoadShapes, n \in 0..MaxCols :
          /\ n <= d.cols
          /\ df' = [df EXCEPT ![p] = d]
          /\ nnum' = [nnum EXCEPT ![p] = n]
          /\ Goto(p, IF DfEmpty(d) THEN "load_failed" ELSE "analyze")
    /\ Log(p, "load")
    /\ UNCHANGED <<pvars, lvars, avars, chart_paths, charts_base64, files,
                   sandbox, deletes, attempts, ready, result>>

\* sandbox.delete(): the call is made; it deletes the sandbox or raises
Delete(p, ok) ==
    /\ deletes' = [deletes EXCEPT ![p] = @ + 1]
    /\ sandbox' = [sandbox EXCEPT ![p] = IF ok THEN "deleted" ELSE @]
    /\ Log(p, "delete")

\* lines 723-726 without the sandbox.delete() of line 725
LoadFailedNoDelete(p) ==
    /\ pc[p] = "load_failed"
    /\ Returns(p, "none")
    /\ UNCHANGED <<pvars, lvars, avars, df, nnum, chart_paths, charts_base64, files,
                   sandbox, deletes, attempts, ready, ops>>

\* lines 723-726: the delete is inside the try block
LoadFailed(p) ==
    /\ pc[p] = "load_failed"
    /\ \/ Delete(p, TRUE) /\ Returns(p, "none")
       \/ Delete(p, FALSE) /\ Throw(p) /\ UNCHANGED result
    /\ UNCHANGED <<pvars, lvars, avars, df, nnum, chart_paths, charts_base64, files,
                   attempts, ready>>

\* a call of the try block that changes no local the model keeps: it
\* returns, or raises where the call can
Call(p, at, op, next, canRaise) ==
    /\ pc[p] = at
    /\ Log(p, op)
    /\ \/ Goto(p, next)
       \/ canRaise /\ Throw(p)
    /\ UNCHANGED <<pvars, lvars, avars, df, nnum, chart_paths, charts_base64, files,
                   sandbox, deletes, attempts, ready, result>>

\* line 732: analyze_data raises for no table that load_data builds
Analyze(p) == Call(p, "analyze", "analyze", "charts", FALSE)

\* line 737: generate_charts writes each chart it renders into /tmp/charts;
\* os.makedirs can raise
GenCharts(p) ==
    /\ pc[p] = "charts"
    /\ \/ \E skipped \in SUBSET InSeq(Candidates(df[p].cols, nnum[p])) :
            LET paths == GenerateCharts(df[p].cols, nnum[p], skipped)
            IN  /\ chart_paths' = [chart_paths EXCEPT ![p] = paths]
                /\ files' = [c \in ChartNames |-> IF c \in InSeq(paths) THEN p ELSE files[c]]
                /\ Goto(p, "encode") /\ Log(p, "charts")
       \/ /\ Throw(p)
          /\ ops' = [ops EXCEPT ![p] = @ \o <<"charts", "makedirs_raised">>]
          /\ UNCHANGED <<chart_paths, files>>
    /\ UNCHANGED <<pvars, lvars, avars, df, nnum, charts_base64,
                   sandbox, deletes, attempts, ready, result>>

\* line 741
Encode(p) ==
    /\ pc[p] = "encode"
    /\ Log(p, "encode")
    /\ charts_base64' = [charts_base64 EXCEPT ![p] = ChartsToBase64(chart_paths[p], files)]
    /\ Goto(p, "flask")
    /\ UNCHANGED <<pvars, lvars, avars, df, nnum, chart_paths, files,
                   sandbox, deletes, attempts, ready, result>>

\* line 744: create_flask_app calls format_analysis_report, whose
\* ', '.join(analysis['columns']) (line 350) raises TypeError when a column
\* label is not a string
Flask(p) ==
    /\ pc[p] = "flask"
    /\ Log(p, "flask")
    /\ IF df[p].intLabels THEN Throw(p) ELSE Goto(p, "upload_app")
    /\ UNCHANGED <<pvars, lvars, avars, df, nnum, chart_paths, charts_base64, files,
                   sandbox, deletes, attempts, ready, result>>

\* line 748
UploadApp(p) == Call(p, "upload_app", "upload_app", "upload_charts", TRUE)

\* lines 751-758: each chart is read back and uploaded, failures are skipped
UploadCharts(p) == Call(p, "upload_charts", "upload_charts", "session", FALSE)

\* line 763 with the shim launched right after, the install loop left out
CreateSessionThenLaunch(p) == Call(p, "session", "session", "launch", TRUE)

\* line 763
CreateSession(p) == Call(p, "session", "session", "install", TRUE)

\* lines 766-783: the install commands are tried until one returns; what
\* they raise is swallowed
Install(p) == Call(p, "install", "install", "launch", FALSE)

\* lines 786-792
Launch(p) == Call(p, "launch", "launch", "preview", TRUE)

\* lines 795-805: get_preview_link(3000) can raise, the terminal link cannot
Preview(p) == Call(p, "preview", "preview", "poll", TRUE)

\* lines 806-814 with the break of line 811 left out
PollNoBreak(p) ==
    /\ pc[p] = "poll" /\ attempts[p] < PollMax
    /\ attempts' = [attempts EXCEPT ![p] = @ + 1]
    /\ \E ok \in BOOLEAN : ready' = [ready EXCEPT ![p] = @ \/ ok]
    /\ ops' = [ops EXCEPT ![p] = IF attempts[p] = 0 THEN Append(@, "poll") ELSE @]
    /\ UNCHANGED <<pvars, lvars, avars, pc, df, nnum, chart_paths, charts_base64, files,
                   sandbox, deletes, result>>

\* lines 806-814: one pass of the loop; a 200 sets ready and breaks, anything
\* else (another status, an exception) sleeps and goes on
Poll(p) ==
    /\ pc[p] = "poll" /\ ~ready[p] /\ attempts[p] < PollMax
    /\ attempts' = [attempts EXCEPT ![p] = @ + 1]
    /\ \E ok \in BOOLEAN : ready' = [ready EXCEPT ![p] = ok]
    /\ ops' = [ops EXCEPT ![p] = IF attempts[p] = 0 THEN Append(@, "poll") ELSE @]
    /\ UNCHANGED <<pvars, lvars, avars, pc, df, nnum, chart_paths, charts_base64, files,
                   sandbox, deletes, result>>

\* lines 816-824 if the URL were returned only for a ready app
ReturnUrlIfReady(p) ==
    /\ pc[p] = "poll" /\ (ready[p] \/ attempts[p] = PollMax)
    /\ IF ready[p] THEN Returns(p, "url") ELSE Throw(p) /\ UNCHANGED result
    /\ UNCHANGED <<pvars, lvars, avars, df, nnum, chart_paths, charts_base64, files,
                   sandbox, deletes, attempts, ready, ops>>

\* lines 816-824: after the loop the URL is returned, ready or not
ReturnUrl(p) ==
    /\ pc[p] = "poll" /\ (ready[p] \/ attempts[p] = PollMax)
    /\ Returns(p, "url")
    /\ UNCHANGED <<pvars, lvars, avars, df, nnum, chart_paths, charts_base64, files,
                   sandbox, deletes, attempts, ready, ops>>

\* lines 826-831 without the sandbox.delete() of line 830
ExceptNoDelete(p) ==
    /\ pc[p] = "except"
    /\ Returns(p, "none")
    /\ UNCHANGED <<pvars, lvars, avars, df, nnum, chart_paths, charts_base64, files,
                   sandbox, deletes, attempts, ready, ops>>

\* lines 826-831: the handler deletes the sandbox and returns (None, None);
\* an exception of the delete leaves the function
Except(p) ==
    /\ pc[p] = "except"
    /\ \/ Delete(p, TRUE) /\ Returns(p, "none")
       \/ Delete(p, FALSE) /\ Returns(p, "raised")
    /\ UNCHANGED <<pvars, lvars, avars, df, nnum, chart_paths, charts_base64, files,
                   attempts, ready>>

\* the part of the run that touches /tmp/charts
Pipeline(p) ==
    \/ GetKey(p) \/ Create(p) \/ Load(p) \/ LoadFailed(p) \/ Analyze(p)
    \/ GenCharts(p) \/ Encode(p) \/ Flask(p) \/ UploadApp(p) \/ UploadCharts(p)
    \/ Except(p)

\* the part that only talks to the sandbox
Hosting(p) ==
    \/ CreateSession(p) \/ Install(p) \/ Launch(p) \/ Preview(p)
    \/ Poll(p) \/ ReturnUrl(p)

(***************************************************************************)
(* handle_message (src/agent.py).                                          *)
(***************************************************************************)
\* line 40
MinQuery == 3

\* len(query): every length below the threshold of line 40, and the
\* threshold itself, which stands for every longer text (the length is
\* compared with 3 and read nowhere else)
QueryLens == 0..MinQuery

\* the locals of the runs that have returned are gone when the next message
\* arrives; the sandbox, the files and the reply sent stay
Forget(f, p, idle) == [q \in Procs |-> IF q = p THEN f[q] ELSE idle]

\* lines 28-68: the acknowledgement is sent; a query shorter than 3
\* characters gets the usage text, any other is run in the executor.
\* Messages are numbered in the order they arrive, each after the reply to
\* the one before.
Receive(p) ==
    /\ apc[p] = "idle"
    /\ \A q \in Procs : q < p => apc[q] = "replied"
    /\ \E n \in QueryLens :
          /\ query' = [query EXCEPT ![p] = n]
          /\ IF n < MinQuery
             THEN /\ apc' = [apc EXCEPT ![p] = "replied"]
                  /\ reply' = [reply EXCEPT ![p] = "usage"]
                  /\ outbox' = [outbox EXCEPT ![p] = @ \o <<"ack", "usage">>]
                  /\ pc' = Forget(pc, p, "idle")
             ELSE /\ apc' = [apc EXCEPT ![p] = "running"]
                  /\ outbox' = [outbox EXCEPT ![p] = Append(@, "ack")]
                  /\ pc' = [Forget(pc, p, "idle") EXCEPT ![p] = "start"]
                  /\ UNCHANGED reply
    /\ df' = Forget(df, p, NoShape)
    /\ nnum' = Forget(nnum, p, 0)
    /\ chart_paths' = Forget(chart_paths, p, <<>>)
    /\ charts_base64' = Forget(charts_base64, p, <<>>)
    /\ attempts' = Forget(attempts, p, 0)
    /\ ready' = Forget(ready, p, FALSE)
    /\ ops' = Forget(ops, p, <<>>)
    /\ UNCHANGED <<pvars, lvars, files, sandbox, deletes, result>>

\* lines 71-95 with the success text sent whatever the run returned
ReplyForAlwaysSuccess(r) == "success"

\* lines 71-95: a URL gives the success reply, (None, None) the failure
\* reply, an exception of the run the error reply
ReplyFor(r) ==
    IF r = "url" THEN "success" ELSE IF r = "raised" THEN "error" ELSE "failure"

\* lines 97-104
Reply(p) ==
    /\ apc[p] = "running" /\ pc[p] = "done"
    /\ apc' = [apc EXCEPT ![p] = "replied"]
    /\ reply' = [reply EXCEPT ![p] = ReplyFor(result[p])]
    /\ outbox' = [outbox EXCEPT ![p] = Append(@, ReplyFor(result[p]))]
    /\ UNCHANGED <<pvars, lvars, rvars, query>>

(***************************************************************************)
(* Tables by column, for analyze_data and generate_charts.  A column is    *)
(* kept by the dtype pandas gives it ("number", "object", "bool"), by what *)
(* its non-missing cells hold ("plain": hashable scalars, "nested": the    *)
(* first one is a dict or a list, "mixed": the first one is hashable and a *)
(* later one is not) and by the number of its missing cells.  A column is  *)
(* named by its position in df.columns.                                    *)
(***************************************************************************)
MaxRows == 2

\* the widest table of columns of every kind and every number of missing cells
MaxProfiled == 2

\* the widest table of full columns of every kind
MaxMixed == 4

\* the widest table of full number and text columns
MaxWidth == 9

\* the most charts whose rendering raises in one call
MaxBroken == 1

Column(dtype, cells, missing) == [dtype |-> dtype, cells |-> cells, missing |-> missing]

\* the columns a table of `rows` rows can have: a bool column has no missing
\* cell, a nested column has a first value, a mixed column two values
Columns(rows) ==
    {Column("number", "plain", m) : m \in 0..rows}
    \cup {Column("object", "plain", m) : m \in 0..rows}
    \cup {Column("object", "nested", m) : m \in 0..(rows - 1)}
    \cup {Column("object", "mixed", m) : m \in 0..(rows - 2)}
    \cup {Column("bool", "plain", 0)}

PlainColumns == {Column("number", "plain", 0), Column("object", "plain", 0)}

\* full columns of every kind, and the object column with no value at all
VariedColumns ==
    {c \in Columns(MaxRows) : c.missing = 0} \cup {Column("object", "plain", MaxRows)}

Table(rows, cols) == [rows |-> rows, cols |-> cols]

Tables ==
    UNION {{Table(r, c) : c \in SeqsUpTo(Columns(r), MaxProfiled)} : r \in 0..MaxRows}
    \cup {Table(MaxRows, c) : c \in SeqsUpTo(VariedColumns, MaxMixed)}
    \cup {Table(MaxRows, c) : c \in SeqsUpTo(PlainColumns, MaxWidth)}

\* len(df[col].dropna())
NonMissing(t, col) == t.rows - t.cols[col].missing

\* df.select_dtypes(include=...).columns: the columns of these dtypes, in
\* the order of df.columns
SelectDtypes(t, include) ==
    LET keep(col) == t.cols[col].dtype \in include
    IN  SelectSeq([col \in 1..Len(t.cols) |-> col], keep)

\* lines 175 and 255
NumericCols(t) == SelectDtypes(t, {"number"})

\* lines 195 and 256
CategoricalCols(t) == SelectDtypes(t, {"object", "category"})

\* q[:n]
Take(q, n) == SubSeq(q, 1, Min(n, Len(q)))

Insight(col, type) == [column |-> col, type |-> type]

\* lines 180-192: a numeric insight for each numeric column that has a value
RECURSIVE NumericInsights(_, _)
NumericInsights(t, cols) ==
    IF cols = <<>> THEN <<>>
    ELSE (IF NonMissing(t, Head(cols)) > 0
          THEN <<Insight(Head(cols), "numeric")>> ELSE <<>>)
         \o NumericInsights(t, Tail(cols))

\* lines 196-234: a column with no value gets nothing; a nested column is
\* complex; nunique() raises TypeError on a mixed column, which is complex
\* too; any other column is categorical
RECURSIVE CategoricalInsights(_, _)
CategoricalInsights(t, cols) ==
    IF cols = <<>> THEN <<>>
    ELSE (IF NonMissing(t, Head(cols)) = 0 THEN <<>>
          ELSE IF t.cols[Head(cols)].cells \in {"nested", "mixed"}
               THEN <<Insight(Head(cols), "complex")>>
          ELSE <<Insight(Head(cols), "categorical")>>)
         \o CategoricalInsights(t, Tail(cols))

\* df.isnull().sum().sum()
RECURSIVE TotalMissing(_)
TotalMissing(cols) ==
    IF cols = <<>> THEN 0 ELSE Head(cols).missing + TotalMissing(Tail(cols))

\* a float, kept as the exact quotient num / den
Fraction(num, den) == [num |-> num, den |-> den]

\* line 237 with the cells counted by rows alone
TotalCellsRowsOnly(t) == IF t.rows > 0 /\ Len(t.cols) > 0 THEN t.rows ELSE 1

\* line 237
TotalCells(t) == IF t.rows > 0 /\ Len(t.cols) > 0 THEN t.rows * Len(t.cols) ELSE 1

\* lines 238-244
Overall(t) ==
    [type |-> "overall",
     total_rows |-> t.rows,
     total_columns |-> Len(t.cols),
     total_missing |-> TotalMissing(t.cols),
     missing_percentage |->
        IF TotalCells(t) > 0
        THEN Fraction(TotalMissing(t.cols) * 100, TotalCells(t))
        ELSE Fraction(0, 1)]

Analysis(shape, missing, insights) ==
    [shape |-> shape, missing_values |-> missing, insights |-> insights]

\* analyze_data with the overall insight put first
AnalyzeDataOverallFirst(t) ==
    Analysis(<<t.rows, Len(t.cols)>>,
             [col \in 1..Len(t.cols) |-> t.cols[col].missing],
             <<Overall(t)>>
             \o NumericInsights(t, NumericCols(t))
             \o CategoricalInsights(t, CategoricalCols(t)))

\* analyze_data
AnalyzeData(t) ==
    Analysis(<<t.rows, Len(t.cols)>>,
             [col \in 1..Len(t.cols) |-> t.cols[col].missing],
             NumericInsights(t, NumericCols(t))
             \o CategoricalInsights(t, CategoricalCols(t))
             \o <<Overall(t)>>)

NoAnalysis == Analysis(<<0, 0>>, <<>>, <<>>)

(***************************************************************************)
(* generate_charts by column.  A chart is kept by its kind, by the number  *)
(* in its file name (hist_{i}.png, bar_{i}.png) and by the column it shows *)
(* (0 for the correlation heatmap); `bad` holds the columns whose chart    *)
(* raises while it is rendered, 0 standing for the heatmap.                *)
(***************************************************************************)
Artifact(kind, i, col) == [kind |-> kind, i |-> i, col |-> col]

\* lines 259-272, cols being numeric_cols[:5]: a chart that raises is left out
RECURSIVE Histograms(_, _, _)
Histograms(cols, i, bad) ==
    IF i > Len(cols) THEN <<>>
    ELSE (IF cols[i] \in bad THEN <<>> ELSE <<Artifact("hist", i - 1, cols[i])>>)
         \o Histograms(cols, i + 1, bad)

\* lines 259-272 with the try around the loop, not inside it
RECURSIVE HistogramsUntilFailure(_, _, _)
HistogramsUntilFailure(cols, i, bad) ==
    IF i > Len(cols) \/ cols[i] \in bad THEN <<>>
    ELSE <<Artifact("hist", i - 1, cols[i])>> \o HistogramsUntilFailure(cols, i + 1, bad)

HistogramChartsUntilFailure(t, bad) ==
    HistogramsUntilFailure(Take(NumericCols(t), HistLimit), 1, bad)

\* lines 258-272
HistogramCharts(t, bad) == Histograms(Take(NumericCols(t), HistLimit), 1, bad)

\* lines 275-306, cols being categorical_cols[:3]: a column with no value
\* (line 278), a nested column (line 283), a mixed column (value_counts
\* raises TypeError, line 301) and a chart that raises (line 305) are left out
RECURSIVE Bars(_, _, _, _)
Bars(t, cols, i, bad) ==
    IF i > Len(cols) THEN <<>>
    ELSE (IF NonMissing(t, cols[i]) = 0 THEN <<>>
          ELSE IF t.cols[cols[i]].cells = "nested" THEN <<>>
          ELSE IF t.cols[cols[i]].cells = "mixed" THEN <<>>
          ELSE IF cols[i] \in bad THEN <<>>
          ELSE <<Artifact("bar", i - 1, cols[i])>>)
         \o Bars(t, cols, i + 1, bad)

\* lines 274-306
BarCharts(t, bad) == Bars(t, Take(CategoricalCols(t), BarLimit), 1, bad)

\* lines 309-322
Heatmap(t, bad) ==
    IF Len(NumericCols(t)) >= 2 /\ 0 \notin bad
    THEN <<Artifact("correlation", 0, 0)>> ELSE <<>>

\* generate_charts: the charts returned, in order
ChartsOf(t, bad) == HistogramCharts(t, bad) \o BarCharts(t, bad) \o Heatmap(t, bad)

NoCharts == [done |-> FALSE, paths |-> <<>>]

(***************************************************************************)
(* The sheet-link rewrite of download_data_from_url, on URLs kept piece by *)
(* piece: the scheme, the host, path segments (each with its leading       *)
(* slash), "?" and "&" and "#", a query parameter, "gid=" and its value.   *)
(***************************************************************************)
UrlPaths ==
    {<<>>, <<"/data.csv">>,
     <<"/spreadsheets/d/", "ID">>,
     <<"/spreadsheets/d/", "ID", "/edit">>,
     <<"/spreadsheets/d/", "ID", "/export?format=csv">>,
     <<"/spreadsheets/u/0/d/", "ID", "/edit">>}

\* what follows the path: a query (continued with "&" after the export
\* path, which opens it) and a fragment
UrlQueries ==
    {<<>>, <<"usp=sharing">>, <<"gid=", "7">>,
     <<"usp=sharing", "&", "gid=", "7">>, <<"gid=", "7", "&", "usp=sharing">>}

UrlFragments == {<<>>, <<"#", "gid=", "7">>}

Urls ==
    {<<"https://", h>> \o path
       \o (IF q = <<>> THEN <<>>
           ELSE <<IF Has(path, "/export?format=csv") THEN "&" ELSE "?">> \o q)
       \o f :
        h \in {"docs.google.com", "example.com"},
        path \in UrlPaths, q \in UrlQueries, f \in UrlFragments}

\* the pieces that hold a '/'
SlashPieces ==
    {"https://", "/data.csv", "/edit", "/export?format=csv",
     "/spreadsheets/d/", "/spreadsheets/u/0/d/"}

\* s.split(piece)[1], up to the next occurrence of the piece if there is one
RECURSIVE After(_, _)
After(s, piece) ==
    IF s = <<>> THEN <<>> ELSE IF Head(s) = piece THEN Tail(s) ELSE After(Tail(s), piece)

\* s.split(sep)[0] for every separator held by one of the pieces in `stops`
RECURSIVE Until(_, _)
Until(s, stops) ==
    IF s = <<>> \/ Head(s) \in stops THEN <<>> ELSE <<Head(s)>> \o Until(Tail(s), stops)

\* lines 108-109: url.split('/spreadsheets/d/')[1].split('/')[0]
SpreadsheetId(u) == Until(After(u, "/spreadsheets/d/"), SlashPieces)

\* lines 111-113: url.split('gid=')[1].split('&')[0].split('#')[0], else '0'
Gid(u) ==
    IF Has(u, "gid=") THEN Until(After(u, "gid="), {"&", "#", "gid="}) ELSE <<"0">>

\* lines 103-120: the URL handed to requests.get; the regular expression of
\* line 117 needs the '/spreadsheets/d/' that its branch has excluded
SheetCsvExportUrl(u) ==
    IF /\ Has(u, "docs.google.com")
       /\ (Has(u, "/spreadsheets/d/") \/ Has(u, "/spreadsheets/u/0/d/"))
       /\ ~Has(u, "/export?format=csv")
       /\ Has(u, "/spreadsheets/d/")
    THEN <<"https://", "docs.google.com", "/spreadsheets/d/">> \o SpreadsheetId(u)
         \o <<"/export?format=csv", "&", "gid=">> \o Gid(u)
    ELSE u

AgentIdle ==
    /\ apc = [p \in Procs |-> "idle"]
    /\ reply = [p \in Procs |-> "none"]
    /\ outbox = [p \in Procs |-> <<>>]
    /\ query = [p \in Procs |-> 0]

PureIdle ==
    /\ table = Table(0, <<>>)
    /\ broken = {}
    /\ analysis = NoAnalysis
    /\ charts = NoCharts
    /\ url_in = <<>>
    /\ url_out = <<>>

Init ==
    /\ LoadIdle
    /\ RunIdle
    /\ AgentIdle
    /\ PureIdle

Next == \E p \in Procs : Receive(p) \/ Pipeline(p) \/ Hosting(p) \/ Reply(p)

\* the messages handled one after the other
Spec == Init /\ [][Next]_vars

NextFirst == Receive(1) \/ Pipeline(1) \/ Hosting(1) \/ Reply(1)

\* the first message alone, its executor thread and the event loop kept running
FairSpec == Init /\ [][NextFirst]_vars /\ WF_vars(NextFirst)

\* two runs dispatched to the executor at once, followed while they use
\* /tmp/charts
Dispatch(p) ==
    /\ apc[p] = "idle"
    /\ apc' = [apc EXCEPT ![p] = "running"]
    /\ outbox' = [outbox EXCEPT ![p] = Append(@, "ack")]
    /\ query' = [query EXCEPT ![p] = MinQuery]
    /\ Goto(p, "start")
    /\ UNCHANGED <<pvars, lvars, reply, df, nnum, chart_paths, charts_base64, files,
                   sandbox, deletes, attempts, ready, result, ops>>

NextConc == \E p \in Procs : Dispatch(p) \/ Pipeline(p)

SpecConc == Init /\ [][NextConc]_vars

(***************************************************************************)
(* One load_data call on every input text.                                 *)
(***************************************************************************)
LoadInit ==
    /\ data_input \in Texts
    /\ csv_fact \in CsvFacts(Strip(data_input))
    /\ json_fact \in JsonFacts(Strip(data_input))
    /\ loaded = NotLoaded
    /\ RunIdle
    /\ AgentIdle
    /\ PureIdle

LoadStep ==
    /\ loaded = NotLoaded
    /\ loaded' \in LoadData(data_input, csv_fact, json_fact)
    /\ UNCHANGED <<data_input, csv_fact, json_fact, avars, rvars, pvars>>

SpecLoad == LoadInit /\ [][LoadStep]_vars

(***************************************************************************)
(* analyze_data, then generate_charts, on every table.                     *)
(***************************************************************************)
TableInit ==
    /\ table \in Tables
    /\ broken \in {b \in SUBSET (0..Len(table.cols)) : Cardinality(b) <= MaxBroken}
    /\ analysis = NoAnalysis
    /\ charts = NoCharts
    /\ url_in = <<>>
    /\ url_out = <<>>
    /\ LoadIdle
    /\ RunIdle
    /\ AgentIdle

Analyzed == Len(analysis.insights) > 0

AnalyzeStep ==
    /\ ~Analyzed
    /\ analysis' = AnalyzeData(table)
    /\ UNCHANGED <<table, broken, charts, url_in, url_out, lvars, avars, rvars>>

ChartStep ==
    /\ Analyzed /\ ~charts.done
    /\ charts' = [done |-> TRUE, paths |-> ChartsOf(table, broken)]
    /\ UNCHANGED <<table, broken, analysis, url_in, url_out, lvars, avars, rvars>>

NextTable == AnalyzeStep \/ ChartStep

SpecTable == TableInit /\ [][NextTable]_vars

(***************************************************************************)
(* The sheet-link rewrite on every URL.                                    *)
(***************************************************************************)
UrlInit ==
    /\ url_in \in Urls
    /\ url_out = <<>>
    /\ table = Table(0, <<>>)
    /\ broken = {}
    /\ analysis = NoAnalysis
    /\ charts = NoCharts
    /\ LoadIdle
    /\ RunIdle
    /\ AgentIdle

\* lines 100-122: the URL is rewritten and requested
UrlStep ==
    /\ url_out = <<>>
    /\ url_out' = SheetCsvExportUrl(url_in)
    /\ UNCHANGED <<table, broken, analysis, charts, url_in, lvars, avars, rvars>>

SpecUrl == UrlInit /\ [][UrlStep]_vars

(***************************************************************************)
(* Properties of the run and of the handler (Spec, FairSpec, SpecConc).    *)
(***************************************************************************)
Provisioned(p) == sandbox[p] # "absent"

\* C1: once the environment has been provisioned, a run that ends in failure
\* has invoked sandbox.delete() on it; when it returns (None, None) the
\* environment is deleted.
C1_DisposeOnFailure ==
    \A p \in Procs :
        /\ (result[p] \in {"none", "raised"} /\ Provisioned(p)) => deletes[p] >= 1
        /\ (result[p] = "none" /\ Provisioned(p)) => sandbox[p] = "deleted"

\* a run that failed after the shim was launched returned with its sandbox deleted
C1_Witness ==
    \E p \in Procs :
        /\ result[p] = "none" /\ Has(ops[p], "launch")
        /\ sandbox[p] = "deleted" /\ deletes[p] = 1

\* C2: the health route is polled at most 45 times, never again after the
\* first 200, and a run that has started polling goes on to return the URL,
\* ready or not.
C2_PollsThenReturnsUrl ==
    /\ [](\A p \in Procs : attempts[p] <= PollMax)
    /\ [](\A p \in Procs : (pc[p] = "done" /\ Has(ops[p], "poll")) => result[p] = "url")
    /\ [][\A p \in Procs : (ready[p] /\ pc'[p] # "idle") => attempts'[p] = attempts[p]]_vars
    /\ \A p \in Procs : [](pc[p] = "poll" => <>(result[p] = "url"))

\* every one of the 45 polls failed and the URL was returned all the same
C2_Witness ==
    \E p \in Procs : attempts[p] = PollMax /\ ~ready[p] /\ result[p] = "url"

NeverReachable(p) == pc[p] = "done" /\ attempts[p] = PollMax /\ ~ready[p]

\* C3 (as amended): when the host cannot be provisioned the request is
\* answered with a failure and no environment exists; when no health poll
\* ever succeeds the run still returns the URL, the reply reports success
\* and the environment is kept.
C3_ProvisioningFailureSurfaced ==
    \A p \in Procs :
        apc[p] = "replied" =>
            /\ Has(ops[p], "create_failed") => (reply[p] = "error" /\ sandbox[p] = "absent")
            /\ Has(ops[p], "no_key") => (reply[p] = "failure" /\ sandbox[p] = "absent")
            /\ NeverReachable(p) => (reply[p] = "success" /\ sandbox[p] = "live")

\* C3 (as stated): when the host cannot be provisioned or no health poll
\* ever succeeds, the reply is a failure and no environment is left.
C3_UnreachableIsFailure ==
    \A p \in Procs :
        (/\ apc[p] = "replied"
         /\ (Has(ops[p], "create_failed") \/ Has(ops[p], "no_key") \/ NeverReachable(p))) =>
            (reply[p] # "success" /\ sandbox[p] # "live")

C3_Witness ==
    \E p \in Procs : apc[p] = "replied" /\ NeverReachable(p) /\ reply[p] = "success"

\* C4: whatever the interleaving of two runs, the charts a run encodes and
\* embeds were rendered from its own table.
C4_OwnChartsOnly ==
    \A p \in Procs : \A i \in 1..Len(charts_base64[p]) : charts_base64[p][i].from = p

AfterLoad == {"analyze", "charts", "encode", "flask", "upload_app", "upload_charts"}

\* C8 (as amended): analysis starts only with a table of >= 1 row and >= 1
\* column; when the loader returns None or an empty table the run ends in a
\* load failure and no analysis, chart generation or upload is done.
C8_NonEmptyOrLoadFailure ==
    \A p \in Procs :
        /\ Has(ops[p], "analyze") => (~df[p].isNone /\ df[p].rows >= 1 /\ df[p].cols >= 1)
        /\ (Has(ops[p], "load") /\ (df[p].isNone \/ df[p].rows = 0 \/ df[p].cols = 0)) =>
              /\ \A op \in AfterLoad : ~Has(ops[p], op)
              /\ pc[p] = "done" => result[p] \in {"none", "raised"}

\* C8 (as stated): analysis starts only with a table of >= 1 row and >= 2 columns.
C8_NeedsTwoColumns ==
    \A p \in Procs : Has(ops[p], "analyze") => (df[p].rows >= 1 /\ df[p].cols >= 2)

\* a single-column table was analysed and uploaded
C8_Witness ==
    \E p \in Procs : Has(ops[p], "upload_app") /\ df[p].rows >= 1 /\ df[p].cols = 1

\* C11: for every dataset that was loaded, analysis, chart generation and
\* report assembly never abort the request: a run that got past the load
\* test and did not return the URL failed in a host operation, that is at the
\* upload of the report or later (a failure to create the chart directory
\* is set aside).
C11_OnlyLoadAndHostFailures ==
    \A p \in Procs :
        (/\ pc[p] = "done" /\ Has(ops[p], "analyze") /\ result[p] # "url"
         /\ ~Has(ops[p], "makedirs_raised")) =>
            Has(ops[p], "upload_app")

HostOps == {"create", "upload_app", "session", "install", "launch", "preview", "poll"}

\* the calls a run has made to the host, in order
HostTrace(p) == LET isHost(op) == op \in HostOps IN SelectSeq(ops[p], isHost)

Before(q, a, b) == \E i, j \in 1..Len(q) : i < j /\ q[i] = a /\ q[j] = b

\* C18: in a run that returns the URL the host operations are, in order:
\* provision, upload the shim, start the session, attempt the installation,
\* launch the shim, get the address of port 3000, poll the health route; the
\* shim is never launched before its upload nor before an install attempt.
C18_HostOrder ==
    \A p \in Procs :
        /\ (pc[p] = "done" /\ result[p] = "url") =>
              HostTrace(p) = <<"create", "upload_app", "session", "install",
                               "launch", "preview", "poll">>
        /\ Has(ops[p], "launch") =>
              Before(ops[p], "upload_app", "launch") /\ Before(ops[p], "install", "launch")

\* a run returned the URL of an app that answered its health route
C18_Witness ==
    \E p \in Procs :
        /\ pc[p] = "done" /\ result[p] = "url" /\ ready[p]
        /\ Before(ops[p], "install", "launch") /\ Before(ops[p], "preview", "poll")

Replies == {"usage", "success", "failure", "error"}

\* C19: for every message the handler sends one acknowledgement, before
\* anything else, and then exactly one reply: the usage text, without running
\* the pipeline, when the text is shorter than 3 characters; the success
\* reply exactly when the pipeline returned a URL; a failure reply otherwise,
\* also when the pipeline raised.
C19_AckThenOneReply ==
    \A p \in Procs :
        /\ apc[p] = "idle" => (outbox[p] = <<>> /\ result[p] = "pending")
        /\ apc[p] = "running" => outbox[p] = <<"ack">>
        /\ apc[p] = "replied" =>
              /\ Len(outbox[p]) = 2 /\ outbox[p][1] = "ack" /\ outbox[p][2] \in Replies
              /\ query[p] < 3 =>
                    /\ outbox[p][2] = "usage"
                    /\ result[p] = "pending" /\ sandbox[p] = "absent" /\ ops[p] = <<>>
              /\ query[p] >= 3 =>
                    /\ result[p] = "url" => outbox[p][2] = "success"
                    /\ result[p] = "none" => outbox[p][2] = "failure"
                    /\ result[p] = "raised" => outbox[p][2] = "error"
                    /\ result[p] \in {"url", "none", "raised"}

\* the first message was answered with the error text after the pipeline
\* raised, the second, too short, with the usage text
C19_Witness ==
    /\ outbox[1] = <<"ack", "error">> /\ result[1] = "raised"
    /\ outbox[2] = <<"ack", "usage">> /\ query[2] = 2

Live == {p \in Procs : sandbox[p] = "live"}

UrlRuns == {p \in Procs : result[p] = "url"}

\* every message received has been answered
Quiescent == \A p \in Procs : apc[p] \in {"idle", "replied"}

\* the runs that were left by an exception of sandbox.delete() itself
DisposeRaised == {p \in Procs : result[p] = "raised" /\ deletes[p] >= 1}

\* C20 (as amended): a run that returns the URL has not disposed its
\* environment and the handler never disposes it afterwards; after any
\* sequence of requests the live environments are those of the requests that
\* returned a URL and those of the failed requests whose dispose call itself
\* raised; without the API key no environment is provisioned.
C20_LiveAreUrlsOrFailedDispose ==
    /\ \A p \in Procs : result[p] = "url" => (sandbox[p] = "live" /\ deletes[p] = 0)
    /\ \A p \in Procs : Has(ops[p], "no_key") => sandbox[p] = "absent"
    /\ Quiescent => Live = UrlRuns \cup DisposeRaised

\* C20 (as stated): after any sequence of requests the number of live
\* environments equals the number of requests that returned a URL.
C20_LiveEqualsUrls ==
    /\ \A p \in Procs : result[p] = "url" => (sandbox[p] = "live" /\ deletes[p] = 0)
    /\ \A p \in Procs : Has(ops[p], "no_key") => sandbox[p] = "absent"
    /\ Quiescent => Cardinality(Live) = Cardinality(UrlRuns)

\* two requests answered: one returned its URL, the other failed and its
\* dispose call raised; both environments are live
C20_Witness ==
    /\ Quiescent /\ Live = Procs
    /\ \E p, q \in Procs : result[p] = "url" /\ result[q] = "raised" /\ deletes[q] = 1

(***************************************************************************)
(* Properties of analyze_data and generate_charts (SpecTable).             *)
(***************************************************************************)
Insights == analysis.insights

PerColumn == {k \in 1..Len(Insights) : Insights[k].type # "overall"}

\* exactly one overall insight, and it is the last element
OverallLast ==
    /\ Len(Insights) >= 1
    /\ Insights[Len(Insights)].type = "overall"
    /\ \A k \in 1..(Len(Insights) - 1) : Insights[k].type # "overall"

IsNumeric(k) == Insights[k].type = "numeric"

\* C12 (as amended): the numeric insights come first, in column order, then
\* the categorical and complex insights, in column order, and exactly one
\* overall insight is present and it is the last element.
C12_NumericThenCategorical ==
    Analyzed =>
        /\ OverallLast
        /\ \A j, k \in PerColumn :
              j < k =>
                  /\ IsNumeric(k) => IsNumeric(j)
                  /\ (IsNumeric(j) <=> IsNumeric(k)) =>
                        Insights[j].column < Insights[k].column

\* C12 (as stated): the per-column insights, numeric and categorical/complex
\* together, are in the column order of the dataset, and exactly one overall
\* insight is present and it is the last element.
C12_ColumnOrder ==
    Analyzed =>
        /\ OverallLast
        /\ \A j, k \in PerColumn : j < k => Insights[j].column < Insights[k].column

\* a text column ahead of a number column: the number's insight comes first
C12_Witness ==
    /\ Analyzed /\ Len(table.cols) = 2
    /\ table.cols[1].dtype = "object" /\ table.cols[2].dtype = "number"
    /\ Len(Insights) = 3
    /\ Insights[1] = Insight(2, "numeric") /\ Insights[2] = Insight(1, "categorical")

\* C13: every column that has a non-missing value gets exactly one profile
\* (numeric, categorical or complex) in the insight list, whatever its cells.
C13_EveryColumnProfiled ==
    Analyzed =>
        \A col \in 1..Len(table.cols) :
            NonMissing(table, col) > 0 =>
                Cardinality({k \in PerColumn : Insights[k].column = col}) = 1

RECURSIVE SumSeq(_)
SumSeq(q) == IF q = <<>> THEN 0 ELSE Head(q) + SumSeq(Tail(q))

\* C16: the missing percentage of the overall insight is 0 when the row count
\* or the column count is 0, and 100 * totalMissing / (rows * cols) otherwise,
\* totalMissing being the sum of the per-column missing counts (the
\* percentage is compared as an exact quotient).
C16_MissingPercentage ==
    Analyzed =>
        LET o == Insights[Len(Insights)]
            rows == analysis.shape[1]
            cols == analysis.shape[2]
            totalMissing == SumSeq(analysis.missing_values)
            pct == o.missing_percentage
        IN  /\ pct.den > 0
            /\ o.total_missing = totalMissing
            /\ IF rows = 0 \/ cols = 0 THEN pct.num = 0
               ELSE pct.num * (rows * cols) = 100 * totalMissing * pct.den

\* one of four cells is missing: 25 percent
C16_Witness ==
    /\ Analyzed /\ analysis.shape = <<2, 2>>
    /\ SumSeq(analysis.missing_values) = 1
    /\ Insights[Len(Insights)].missing_percentage = Fraction(100, 4)

Paths == charts.paths

HasBar(col) == \E k \in 1..Len(Paths) : Paths[k].kind = "bar" /\ Paths[k].col = col

\* the columns that are not numeric and hold no nested values, in column
\* order (not numeric is read as generate_charts reads it: of object or
\* category dtype)
BarEligible ==
    LET keep(col) ==
            /\ table.cols[col].dtype \in {"object", "category"}
            /\ table.cols[col].cells # "nested"
    IN  SelectSeq([col \in 1..Len(table.cols) |-> col], keep)

\* C14: each of the first 3 columns that are not numeric and not nested gets
\* a bar chart, unless it has no non-missing value, its frequency counting
\* fails or its rendering raises; a nested column never gets a bar chart and
\* uses up none of the 3 places.
C14_BarPerEligibleColumn ==
    charts.done =>
        /\ \A k \in 1..Len(BarEligible) :
              (/\ k <= 3
               /\ NonMissing(table, BarEligible[k]) > 0
               /\ table.cols[BarEligible[k]].cells # "mixed"
               /\ BarEligible[k] \notin broken) => HasBar(BarEligible[k])
        /\ \A col \in 1..Len(table.cols) :
              table.cols[col].cells = "nested" => ~HasBar(col)

Count(kind) == Cardinality({k \in 1..Len(Paths) : Paths[k].kind = kind})

\* C15: generate_charts returns at most 9 charts: at most 5 histograms, at
\* most 3 bar charts, at most 1 heatmap, and exactly one heatmap when there
\* are at least 2 numeric columns and its rendering succeeds; a chart that
\* fails removes no other chart from the result; with no numeric and no
\* categorical column the result is empty.
C15_ChartLimits ==
    charts.done =>
        /\ Len(Paths) <= 9
        /\ Count("hist") <= 5 /\ Count("bar") <= 3 /\ Count("correlation") <= 1
        /\ (/\ Cardinality({col \in 1..Len(table.cols) : table.cols[col].dtype = "number"}) >= 2
            /\ 0 \notin broken) => Count("correlation") = 1
        /\ LET all == ChartsOf(table, {})
           IN  \A k \in 1..Len(all) :
                   all[k].col \notin broken => \E j \in 1..Len(Paths) : Paths[j] = all[k]
        /\ (\A col \in 1..Len(table.cols) :
                table.cols[col].dtype \notin {"number", "object", "category"}) => Paths = <<>>

\* six number columns and three text columns, the second histogram raises:
\* the other four histograms, the three bar charts and the heatmap are returned
C15_Witness ==
    /\ charts.done /\ Len(table.cols) = 9 /\ broken = {2}
    /\ Cardinality({col \in 1..9 : table.cols[col].dtype = "number"}) = 6
    /\ table.cols[2].dtype = "number"
    /\ Count("hist") = 4 /\ Count("bar") = 3 /\ Count("correlation") = 1

(***************************************************************************)
(* Properties of the sheet-link rewrite (SpecUrl).                         *)
(***************************************************************************)
\* the host is the sheet domain and the path holds the document identifier
\* (a link that is an export link already is set aside)
IsSheetLink ==
    /\ url_in[2] = "docs.google.com"
    /\ \E i \in 1..(Len(url_in) - 1) : url_in[i] = "/spreadsheets/d/" /\ url_in[i + 1] = "ID"
    /\ ~Has(url_in, "/export?format=csv")

\* the sheet identifier of the input, 0 when it has none
GidOfInput ==
    IF Has(url_in, "gid=")
    THEN LET i == CHOOSE k \in 1..(Len(url_in) - 1) :
                      url_in[k] = "gid=" /\ \A j \in 1..(k - 1) : url_in[j] # "gid="
         IN  <<url_in[i + 1]>>
    ELSE <<"0">>

\* C17: a sheet link is fetched from the export endpoint built from its
\* document identifier and its sheet identifier (0 when it has none), every
\* other query parameter discarded; any other URL is fetched unchanged.
C17_SheetLinkRewritten ==
    url_out # <<>> =>
        IF IsSheetLink
        THEN url_out = <<"https://", "docs.google.com", "/spreadsheets/d/", "ID",
                         "/export?format=csv", "&", "gid=">> \o GidOfInput
        ELSE url_out = url_in

(***************************************************************************)
(* Properties of the loader (SpecLoad).                                    *)
(***************************************************************************)
LoadDone == loaded # NotLoaded

Last(q) == q[Len(q)]

\* the tests of the classification order, as the specification words them
CsvHit == LET s == Strip(data_input)
          IN  Has(s, ",") /\ Has(s, "\n") /\ ~StartsWith(s, "http")

CsvYield == CsvHit /\ ~csv_fact.raised /\ csv_fact.df.rows >= 1 /\ csv_fact.df.cols >= 2

JsonHit == LET s == Strip(data_input)
           IN  StartsWith(s, "{") /\ ~StartsWith(s, "http")

JsonYield == JsonHit /\ json_fact.kind \in {"list", "dict"}

TriedCsv == IF CsvHit THEN <<"inline_csv">> ELSE <<>>

TriedJson == IF JsonHit THEN <<"inline_json">> ELSE <<>>

C6_DelimitedNeverFetched ==
    (LoadDone /\ CsvYield) =>
        /\ loaded.path = "inline_csv" /\ ~loaded.isNone
        /\ loaded.df = csv_fact.df
        /\ ~Has(loaded.steps, "url")

\* C6 (as stated): every text with a comma and a newline that parses into
\* >= 2 columns is classified inline delimited and never fetched.
C6_AnyDelimitedNeverFetched ==
    (/\ LoadDone /\ Has(data_input, ",") /\ Has(data_input, "\n")
     /\ ~csv_fact.raised /\ csv_fact.df.cols >= 2) =>
        loaded.path = "inline_csv" /\ ~Has(loaded.steps, "url")

C6_Witness == LoadDone /\ CsvYield /\ loaded.steps = <<"inline_csv">> /\ loaded.df.rows = 1

\* C7: for an input that begins with http, neither inline delimited parsing
\* nor inline structured parsing is entered, whatever else it contains.
C7_HttpNeverInline ==
    (LoadDone /\ StartsWith(data_input, "http")) =>
        ~Has(loaded.steps, "inline_csv") /\ ~Has(loaded.steps, "inline_json")

\* an http input with a comma, an inner newline and a brace was fetched
C7_Witness ==
    /\ LoadDone /\ StartsWith(data_input, "http")
    /\ \E t \in {",", "{"} : Strip(data_input) = <<"http", "\n", t>>
    /\ loaded.steps = <<"url">>

\* C9: every structured-parsing path applies the same record discovery: an
\* array is the rows, an object gives its first array value as the rows, an
\* object with no array value is one row.
StructuredPaths ==
    {"inline_json", "file_json", "file_trial_json", "remote_json", "remote_trial_json"}

FollowsDiscoveryRule(r) ==
    /\ r.doc.kind = "list" =>
          ~r.isNone /\ r.df.src = "records" /\ r.df.rows = Len(r.doc.items)
    /\ r.doc.kind = "dict" =>
          IF \E i \in 1..Len(r.doc.vals) : r.doc.vals[i].islist
          THEN LET i == CHOOSE k \in 1..Len(r.doc.vals) :
                           /\ r.doc.vals[k].islist
                           /\ \A j \in 1..(k - 1) : ~r.doc.vals[j].islist
               IN  /\ ~r.isNone /\ r.df.src = "value" /\ r.df.idx = i
                   /\ r.df.rows = Len(r.doc.vals[i].items)
          ELSE ~r.isNone /\ r.df.src = "wrap" /\ r.df.rows = 1

C9_SameDiscoveryRule ==
    (LoadDone /\ loaded.path \in StructuredPaths) => FollowsDiscoveryRule(loaded)

\* C10: the content-type decides the format first; the URL suffix or query
\* hint is consulted only when the content-type names neither format; trial
\* parsing is used only when neither decides.
C10_ContentTypeFirst ==
    (LoadDone /\ loaded.ctype \in CTypes) =>
        /\ loaded.ctype = "csv" => loaded.fmt = "csv"
        /\ loaded.ctype = "json" => loaded.fmt = "json"
        /\ loaded.ctype = "other" =>
              LET csvHint == EndsWith(loaded.url, ".csv") \/ Has(loaded.url, "format=csv")
                  jsonHint == EndsWith(loaded.url, ".json")
              IN  /\ (csvHint /\ ~jsonHint) => loaded.fmt = "csv"
                  /\ (jsonHint /\ ~csvHint) => loaded.fmt = "json"
                  /\ (loaded.fmt = "trial") <=> (~csvHint /\ ~jsonHint)

====
